---- MODULE Spec2Model ----
(***************************************************************************)
(* Refresh-session lifecycle of the MGLTickets backend: login, refresh     *)
(* (rotation), logout, logout-all-devices and the cleanup sweep, over the  *)
(* refresh_sessions table.                                                 *)
(*                                                                         *)
(* Time is counted in ticks of 1/TicksPerSecond second, so that the        *)
(* whole-second truncation of a JWT's exp claim is distinguishable from    *)
(* the sub-second precision of the table's timestamps.                     *)
(***************************************************************************)
EXTENDS Integers, FiniteSets, Sequences, TLC

VARIABLES
    now,        \* the clock, in ticks
    store,      \* refresh_sessions table: session_id -> row, or NoRow
    minted,     \* session ids uuid4 has produced so far
    issued,     \* refresh tokens handed to clients so far
    is_active,  \* users.is_active, per user id
    req,        \* per request task: the refresh handler's position and locals
    last,       \* the response of the most recently completed handler
    ticks,      \* number of clock advances so far (bounds the run)
    attrs,      \* the attributes readable on what get_refresh_session_repo returns
    error_log   \* the lines logger.error has written for the cleanup job

vars == <<now, store, minted, issued, is_active, req, last, ticks, attrs, error_log>>

----------------------------------------------------------------------------
\* Bounds of the model.

MaxSessions == 3
MaxTicks == 1
TicksPerSecond == 2

\* Program constants, in the units of the source.

ACCESS_TOKEN_MINUTES == 15
REFRESH_TOKEN_DAYS == 7
SESSION_DAYS == 7
GRACE_SECONDS == 5
DEFAULT_CLEANUP_HOURS == 24

Seconds(n) == n * TicksPerSecond
Minutes(n) == Seconds(60 * n)
Hours(n) == Minutes(60 * n)
Days(n) == Hours(24 * n)

\* int(timegm(...)): a JWT carries and compares whole seconds.
SecFloor(t) == (t \div TicksPerSecond) * TicksPerSecond

None == 0 - 1

Users == {1, 2}
ROLE_ORGANIZER == "organizer"
ROLE_ADMIN == "admin"
ROLE_SYSADMIN == "sysadmin"

\* The rows of the users table: the two users above, who hold sessions, an
\* organizer and a sysadmin.
Accounts == Users \cup {3, 4}

\* An id no row of the users table has (the account was deleted).
UnknownAccount == 5

Role(u) ==
    IF u = 2 THEN ROLE_ADMIN
    ELSE IF u = 3 THEN ROLE_ORGANIZER
    ELSE IF u = 4 THEN ROLE_SYSADMIN
    ELSE "user"

SIDs == 1..MaxSessions

\* The session ids of the rows the table may hold at start.
InitSIDs == {1, 2}

\* The request tasks that can be inside the refresh handler at once.
Tasks == {1, 2}

NoRow == [user_id |-> None]

----------------------------------------------------------------------------
\* TokenCodec (app/core/security.py)

create_access_token(user_id, t) ==
    [id |-> user_id, sid |-> None, type |-> "none",
     exp |-> SecFloor(t + Minutes(ACCESS_TOKEN_MINUTES)), sig |-> "ok"]

create_refresh_token(user_id, session_id, t) ==
    [id |-> user_id, sid |-> session_id, type |-> "refresh",
     exp |-> SecFloor(t + Days(REFRESH_TOKEN_DAYS)), sig |-> "ok"]

\* A decoder that rejects a token in the second its exp names.
decode_ok_strict(token, t) == token.sig = "ok" /\ ~(token.exp <= SecFloor(t))

\* jwt.decode: the signature must verify and exp must not lie before the
\* current whole second; otherwise JWTError -> HTTP 401.
decode_ok(token, t) == token.sig = "ok" /\ ~(token.exp < SecFloor(t))

\* HMAC-SHA256 under the process key, base64: a digest, never the token.
hash_token(token) == <<"hmac-sha256", token>>

\* A comparison that looks at the digest's algorithm only.
verify_token_any(token, refresh_token_hash) ==
    refresh_token_hash[1] = hash_token(token)[1]

verify_token(token, refresh_token_hash) == hash_token(token) = refresh_token_hash

----------------------------------------------------------------------------
\* SessionStore (app/db/repositories/ref_sessions_repo.py)

Stored(st) == {s \in SIDs : st[s] # NoRow}

RefreshSession(user_id, refresh_token_hash, expires_at, t) ==
    [user_id |-> user_id, refresh_token_hash |-> refresh_token_hash,
     revoked_at |-> None, replaced_by_sid |-> None, expires_at |-> expires_at,
     created_at |-> t, last_used_at |-> t]

\* An insert that stores the row without its lifetime.
create_refresh_session_repo_expired(st, session_id, user_id, refresh_token_hash, expires_at, t) ==
    [st EXCEPT ![session_id] = RefreshSession(user_id, refresh_token_hash, t, t)]

create_refresh_session_repo(st, session_id, user_id, refresh_token_hash, expires_at, t) ==
    [st EXCEPT ![session_id] = RefreshSession(user_id, refresh_token_hash, expires_at, t)]

\* The columns of the ORM row, and the fields RefreshSessionOut declares.
OrmColumns ==
    {"session_id", "user_id", "refresh_token_hash", "revoked_at",
     "replaced_by_sid", "expires_at", "created_at", "last_used_at"}

RefreshSessionOut == {"session_id", "user_id", "refresh_token_hash", "expires_at"}

OrmRow(st, session_id) ==
    [f \in OrmColumns |->
        IF f = "session_id" THEN session_id ELSE st[session_id][f]]

\* model_validate(row): only the fields of the schema survive.
model_validate(row, fields) == [f \in fields |-> row[f]]

\* None when no row has that session_id.
get_refresh_session_repo(st, session_id, fields) ==
    IF session_id \in SIDs /\ st[session_id] # NoRow
    THEN model_validate(OrmRow(st, session_id), fields)
    ELSE [session_id |-> None]

\* A revoke that stamps the row's expiry time where it should stamp the clock.
revoke_refresh_session_repo_at_expiry(st, session_id, new_session_id, t) ==
    IF session_id \in SIDs /\ st[session_id] # NoRow
    THEN [st EXCEPT ![session_id] =
            [@ EXCEPT !.revoked_at = st[session_id].expires_at,
                      !.replaced_by_sid = new_session_id,
                      !.last_used_at = t]]
    ELSE st

\* A revoke that records the revoked session as its own successor.
revoke_refresh_session_repo_self(st, session_id, new_session_id, t) ==
    IF session_id \in SIDs /\ st[session_id] # NoRow
    THEN [st EXCEPT ![session_id] =
            [@ EXCEPT !.revoked_at = t, !.replaced_by_sid = session_id,
                      !.last_used_at = t]]
    ELSE st

revoke_refresh_session_repo(st, session_id, new_session_id, t) ==
    IF session_id \in SIDs /\ st[session_id] # NoRow
    THEN [st EXCEPT ![session_id] =
            [@ EXCEPT !.revoked_at = t, !.replaced_by_sid = new_session_id,
                      !.last_used_at = t]]
    ELSE st

\* `x or row.x` for each of the three fields of RefreshSessionUpdate; the
\* service passes the row's own session_id, so the key stays.
update_refresh_session_repo(st, session_id, refresh_token_hash, expires_at) ==
    IF session_id \in SIDs /\ st[session_id] # NoRow
    THEN [st EXCEPT ![session_id] =
            [@ EXCEPT !.refresh_token_hash = refresh_token_hash,
                      !.expires_at = expires_at]]
    ELSE st

\* A delete whose transaction is never committed.
delete_refresh_session_repo_uncommitted(st, session_id) == st

delete_refresh_session_repo(st, session_id) ==
    IF session_id \in SIDs /\ st[session_id] # NoRow
    THEN [st EXCEPT ![session_id] = NoRow]
    ELSE st

\* A sweep that ignores the retention period.
CleanupDeletes_at_once(st, hours, t) ==
    {s \in Stored(st) :
        \/ st[s].expires_at < t
        \/ (st[s].revoked_at # None /\ st[s].revoked_at < t)}

\* A sweep that runs the first DELETE only.
CleanupDeletes_expired(st, hours, t) ==
    {s \in Stored(st) : st[s].expires_at < t - Hours(hours)}

\* Two DELETE statements in one transaction: expires_at < cutoff, then
\* revoked_at < cutoff (a NULL revoked_at compares as unknown, never true).
CleanupDeletes(st, hours, t) ==
    LET cutoff_time == t - Hours(hours)
    IN  {s \in Stored(st) :
            \/ st[s].expires_at < cutoff_time
            \/ (st[s].revoked_at # None /\ st[s].revoked_at < cutoff_time)}

cleanup_expired_and_revoked_sessions_repo(st, hours, t) ==
    [s \in SIDs |-> IF s \in CleanupDeletes(st, hours, t) THEN NoRow ELSE st[s]]

\* A delete-all that spares the user's revoked rows.
cleanup_all_user_sessions_repo_unrevoked(st, user_id) ==
    [s \in SIDs |-> IF st[s] # NoRow /\ st[s].user_id = user_id /\ st[s].revoked_at = None
                    THEN NoRow ELSE st[s]]

cleanup_all_user_sessions_repo(st, user_id) ==
    [s \in SIDs |-> IF st[s] # NoRow /\ st[s].user_id = user_id THEN NoRow ELSE st[s]]

get_active_session_count_repo(st, t) ==
    Cardinality({s \in Stored(st) : st[s].revoked_at = None /\ st[s].expires_at > t})

get_user_active_sessions_repo(st, user_id, t) ==
    Cardinality({s \in Stored(st) :
        st[s].user_id = user_id /\ st[s].revoked_at = None /\ st[s].expires_at > t})

----------------------------------------------------------------------------
\* Responses and request-task locals

\* A response as the client sees it.  op: the route; detail: the error's
\* detail, or a word for the success; arg: the user_id or hours echoed in the
\* body (for logout, the session_id the handler decoded); access: the user
\* the returned access token is for; cookie: the session whose refresh token
\* is set as cookie; count: rows deleted.
Response(op, status, detail, arg, access, cookie, count) ==
    [op |-> op, status |-> status, detail |-> detail, arg |-> arg,
     access |-> access, cookie |-> cookie, count |-> count]

NoResponse == Response("none", 0, "", None, None, None, None)

\* An HTTPException carries a status code and a detail, nothing else.
HTTPException(op, status, detail) ==
    Response(op, status, detail, None, None, None, None)

NoToken == [id |-> None, sid |-> None, type |-> "none", exp |-> None, sig |-> "absent"]

\* A token whose signature does not verify under SECRET_KEY.
ForgedToken == [id |-> 1, sid |-> 1, type |-> "refresh", exp |-> None, sig |-> "bad"]

Idle ==
    [pc |-> "idle", token |-> NoToken, session_id |-> None, user_id |-> None,
     new_session_id |-> None, new_refresh_token |-> NoToken, expires_at |-> None]

\* uuid.uuid4().hex: an id never produced before; ids are opaque, so the
\* least unused one stands for any of them.
uuid4(used) == CHOOSE s \in SIDs \ used : \A o \in SIDs \ used : s <= o

\* What a client can put in the refresh_token cookie: nothing, a token it
\* was issued, an access token, or bytes that do not verify.
Presentable(t) ==
    issued \cup {NoToken, ForgedToken, create_access_token(1, t)}

----------------------------------------------------------------------------
\* Initial states: the table as an earlier run of the service left it.

Now0 == Days(30)

InitCreatedAges == {0, Days(SESSION_DAYS)}
InitRevokedAges == {0, Hours(DEFAULT_CLEANUP_HOURS)}

InitRow(u, s, c, r, b) ==
    [RefreshSession(u, hash_token(create_refresh_token(u, s, Now0 - c)),
                    (Now0 - c) + Days(SESSION_DAYS), Now0 - c)
        EXCEPT !.revoked_at = IF r = None THEN None ELSE Now0 - r,
               !.replaced_by_sid = b,
               !.last_used_at = IF r = None THEN Now0 - c ELSE Now0 - r]

InitRows(s) ==
    {NoRow} \cup
    { InitRow(p[1], s, p[2], p[3], p[4]) :
        p \in {q \in Users \X InitCreatedAges \X ({None} \cup InitRevokedAges)
                       \X ({None} \cup (InitSIDs \ {s})) :
                  q[3] <= q[2] /\ ((q[3] = None) <=> (q[4] = None))} }

RECURSIVE Chain(_, _, _)
\* The sessions reached from s along replaced_by_sid in at most n steps.
Chain(st, s, n) ==
    IF n = 0 \/ s = None \/ s \notin SIDs THEN {}
    ELSE IF st[s] = NoRow \/ st[s].replaced_by_sid = None THEN {}
    ELSE {st[s].replaced_by_sid} \cup Chain(st, st[s].replaced_by_sid, n - 1)

\* Rows that rotation can have written: revoked exactly when replaced, the
\* successor minted, of the same user, created during the predecessor's
\* life and no later than its revocation, and no chain closing on itself.
WellFormed(st) ==
    \A s \in Stored(st) :
        /\ (st[s].revoked_at = None) <=> (st[s].replaced_by_sid = None)
        /\ st[s].replaced_by_sid # None =>
              LET b == st[s].replaced_by_sid
              IN  /\ b # s
                  /\ st[b] # NoRow =>
                        /\ st[b].user_id = st[s].user_id
                        /\ st[s].created_at <= st[b].created_at
                        /\ st[b].created_at <= st[s].revoked_at
        /\ s \notin Chain(st, s, MaxSessions)

InitStores ==
    LET tables == {[s \in SIDs |-> IF s \in InitSIDs THEN f[s] ELSE NoRow] :
                      f \in [InitSIDs -> UNION {InitRows(s) : s \in InitSIDs}]}
    IN  {st \in tables : (\A s \in InitSIDs : st[s] \in InitRows(s)) /\ WellFormed(st)}

InitCommon ==
    /\ now = Now0
    /\ store \in InitStores
    /\ minted = InitSIDs
    /\ issued = {create_refresh_token(store[s].user_id, s, store[s].created_at)
                    : s \in Stored(store)}
    /\ is_active = [u \in Accounts |-> TRUE]
    /\ req = [w \in Tasks |-> Idle]
    /\ last = NoResponse
    /\ ticks = 0
    /\ error_log = {}

\* The service as shipped: get returns a RefreshSessionOut.
Init == InitCommon /\ attrs = RefreshSessionOut

----------------------------------------------------------------------------
\* RoleGuard (app/core/security.py)

\* The bearer credentials a caller presents: an access token it obtained.
Credentials(t) == {create_access_token(u, t) : u \in Users}

\* The status get_current_user ends with, 200 when it returns the user.
\* Without an Authorization header HTTPBearer(auto_error=False) hands over
\* None, and line 73 reads `.credentials` of it: AttributeError, HTTP 500.
get_current_user(credentials, t, active) ==
    IF credentials = NoToken THEN 500
    ELSE IF ~decode_ok(credentials, t) THEN 401
    ELSE IF credentials.id = None THEN 401
    ELSE IF credentials.id \notin Accounts THEN 401
    ELSE IF ~active[credentials.id] THEN 403
    ELSE 200

require_user(credentials, t, active) == get_current_user(credentials, t, active)

require_organizer(credentials, t, active) ==
    IF get_current_user(credentials, t, active) # 200
    THEN get_current_user(credentials, t, active)
    ELSE IF Role(credentials.id) # ROLE_ORGANIZER THEN 403
    ELSE 200

require_admin(credentials, t, active) ==
    IF get_current_user(credentials, t, active) # 200
    THEN get_current_user(credentials, t, active)
    ELSE IF Role(credentials.id) # ROLE_ADMIN THEN 403
    ELSE 200

require_superadmin(credentials, t, active) ==
    IF get_current_user(credentials, t, active) # 200
    THEN get_current_user(credentials, t, active)
    ELSE IF Role(credentials.id) # ROLE_SYSADMIN THEN 403
    ELSE 200

\* The guards a route can declare, by the role they ask for.
Guards == {"user", ROLE_ORGANIZER, ROLE_ADMIN, ROLE_SYSADMIN}

RoleGuard(guard, credentials, t, active) ==
    IF guard = ROLE_ORGANIZER THEN require_organizer(credentials, t, active)
    ELSE IF guard = ROLE_ADMIN THEN require_admin(credentials, t, active)
    ELSE IF guard = ROLE_SYSADMIN THEN require_superadmin(credentials, t, active)
    ELSE require_user(credentials, t, active)

\* How long ago an access token in a client's hands was issued: just now,
\* one tick short of its lifetime, one second past it.
AccessAges ==
    {0, Minutes(ACCESS_TOKEN_MINUTES) - 1, Minutes(ACCESS_TOKEN_MINUTES) + Seconds(1)}

\* What a client can put in the Authorization header: nothing, bytes that do
\* not verify, a refresh token it was issued, an access token it was issued.
Bearer(t) ==
    {NoToken, ForgedToken} \cup issued
        \cup {create_access_token(u, t - a) :
                  u \in Accounts \cup {UnknownAccount}, a \in AccessAges}

----------------------------------------------------------------------------
\* RotationProtocol (app/api/routers/auth/auth.py)

\* A handler step runs once the previous response has left the server.
Ready == last = NoResponse

Respond(w, response) ==
    /\ req' = [req EXCEPT ![w] = Idle]
    /\ last' = response

\* POST /auth/login.  password_ok: whether argon2 verifies the password.
login(u, password_ok) ==
    /\ Ready
    /\ IF ~is_active[u]
       THEN /\ last' = HTTPException("login", 403, "Inactive user")
            /\ UNCHANGED <<store, minted, issued>>
       ELSE IF ~password_ok
       THEN /\ last' = HTTPException("login", 401, "Incorrect password.")
            /\ UNCHANGED <<store, minted, issued>>
       ELSE /\ SIDs \ minted # {}
            /\ LET session_id == uuid4(minted)
                   refresh_token == create_refresh_token(u, session_id, now)
                   expires_at == now + Days(SESSION_DAYS)
               IN  /\ store' = create_refresh_session_repo(store, session_id, u,
                                   hash_token(refresh_token), expires_at, now)
                   /\ minted' = minted \cup {session_id}
                   /\ issued' = issued \cup {refresh_token}
                   /\ last' = Response("login", 200, "Login successful", None,
                                       u, session_id, None)
    /\ UNCHANGED <<now, is_active, req, ticks, attrs, error_log>>

\* A handler that goes on without looking at what get returned.
refresh_checks_unchecked(token, st, t, fields) ==
    LET user_id == token.id
        session_id == token.sid
        session == get_refresh_session_repo(st, session_id, fields)
    IN  IF token = NoToken THEN <<401, "No refresh token provided">>
        ELSE IF ~decode_ok(token, t) THEN <<401, "Invalid or expired token">>
        ELSE IF token.type # "refresh" THEN <<401, "Invalid refresh token">>
        ELSE IF user_id = None \/ session_id = None
             THEN <<401, "Invalid refresh token">>
        ELSE IF "revoked_at" \notin DOMAIN session
             THEN <<500, "AttributeError: revoked_at">>
        ELSE IF session.revoked_at # None
             THEN IF t - session.revoked_at < Seconds(GRACE_SECONDS)
                  THEN <<0, "recheck">>
                  ELSE <<401, "Refresh token revoked">>
        ELSE IF session.expires_at < t THEN <<0, "expired">>
        ELSE IF ~verify_token(token, session.refresh_token_hash)
             THEN <<401, "Invalid refresh token">>
        ELSE <<0, "create">>


\* Lines 143-210 of refresh_token: everything up to the first write.  The
\* result names the HTTP error raised, or the step the handler goes on to.
refresh_checks(token, st, t, fields) ==
    LET user_id == token.id
        session_id == token.sid
        session == get_refresh_session_repo(st, session_id, fields)
    IN  IF token = NoToken THEN <<401, "No refresh token provided">>
        ELSE IF ~decode_ok(token, t) THEN <<401, "Invalid or expired token">>
        ELSE IF token.type # "refresh" THEN <<401, "Invalid refresh token">>
        ELSE IF user_id = None \/ session_id = None
             THEN <<401, "Invalid refresh token">>
        ELSE IF session.session_id = None \/ session.user_id # user_id
             THEN <<401, "Invalid refresh token">>
        ELSE IF "revoked_at" \notin DOMAIN session
             THEN <<500, "AttributeError: revoked_at">>
        ELSE IF session.revoked_at # None
             THEN IF t - session.revoked_at < Seconds(GRACE_SECONDS)
                  THEN <<0, "recheck">>
                  ELSE <<401, "Refresh token revoked">>
        ELSE IF session.expires_at < t THEN <<0, "expired">>
        ELSE IF ~verify_token(token, session.refresh_token_hash)
             THEN <<401, "Invalid refresh token">>
        ELSE <<0, "create">>

\* POST /auth/refresh, up to its first await after the session was read.
refresh_token(w, token) ==
    /\ Ready
    /\ req[w].pc = "idle"
    /\ \A o \in Tasks : req[o].pc = "idle" => w <= o
    /\ LET r == refresh_checks(token, store, now, attrs)
       IN  IF r[1] # 0
           THEN /\ Respond(w, HTTPException("refresh", r[1], r[2]))
                /\ UNCHANGED minted
           ELSE IF r[2] = "create"
           THEN /\ SIDs \ minted # {}
                /\ LET new_session_id == uuid4(minted)
                   IN  /\ req' = [req EXCEPT ![w] =
                                [pc |-> "create", token |-> token,
                                 session_id |-> token.sid, user_id |-> token.id,
                                 new_session_id |-> new_session_id,
                                 new_refresh_token |->
                                    create_refresh_token(token.id, new_session_id, now),
                                 expires_at |-> now + Days(SESSION_DAYS)]]
                       /\ minted' = minted \cup {new_session_id}
                /\ UNCHANGED last
           ELSE /\ req' = [req EXCEPT ![w] =
                        [Idle EXCEPT !.pc = r[2], !.token = token,
                                     !.session_id = token.sid, !.user_id = token.id]]
                /\ UNCHANGED <<minted, last>>
    /\ UNCHANGED <<now, store, issued, is_active, ticks, attrs, error_log>>

\* Lines 183-195: the session is read again, by the same session_id.
refresh_recheck(w) ==
    /\ Ready
    /\ req[w].pc = "recheck"
    /\ LET new_session == get_refresh_session_repo(store, req[w].session_id, attrs)
       IN  IF new_session.session_id # None /\ new_session.revoked_at = None
           THEN Respond(w, Response("refresh", 200, "grace", None,
                                    req[w].user_id, None, None))
           ELSE Respond(w, HTTPException("refresh", 401, "Refresh token revoked"))
    /\ UNCHANGED <<now, store, minted, issued, is_active, ticks, attrs, error_log>>

\* An expiry branch that deletes every session of the token's user.
refresh_expired_all(w) ==
    /\ Ready
    /\ req[w].pc = "expired"
    /\ store' = cleanup_all_user_sessions_repo(store, req[w].user_id)
    /\ Respond(w, HTTPException("refresh", 401, "Refresh token expired"))
    /\ UNCHANGED <<now, minted, issued, is_active, ticks, attrs, error_log>>

\* Lines 198-203.
refresh_expired(w) ==
    /\ Ready
    /\ req[w].pc = "expired"
    /\ store' = delete_refresh_session_repo(store, req[w].session_id)
    /\ Respond(w, HTTPException("refresh", 401, "Refresh token expired"))
    /\ UNCHANGED <<now, minted, issued, is_active, ticks, attrs, error_log>>

\* A handler that marks the predecessor where it should insert the successor.
refresh_create_after_revoke(w) ==
    /\ Ready
    /\ req[w].pc = "create"
    /\ store' = revoke_refresh_session_repo(store, req[w].session_id,
                                            req[w].new_session_id, now)
    /\ req' = [req EXCEPT ![w].pc = "revoke"]
    /\ UNCHANGED <<now, minted, issued, is_active, last, ticks, attrs, error_log>>

\* Lines 219-224.
refresh_create(w) ==
    /\ Ready
    /\ req[w].pc = "create"
    /\ store' = create_refresh_session_repo(store, req[w].new_session_id,
                    req[w].user_id, hash_token(req[w].new_refresh_token),
                    req[w].expires_at, now)
    /\ req' = [req EXCEPT ![w].pc = "revoke"]
    /\ UNCHANGED <<now, minted, issued, is_active, last, ticks, attrs, error_log>>

\* Lines 227-244.
refresh_revoke(w) ==
    /\ Ready
    /\ req[w].pc = "revoke"
    /\ store' = revoke_refresh_session_repo(store, req[w].session_id,
                                            req[w].new_session_id, now)
    /\ issued' = issued \cup {req[w].new_refresh_token}
    /\ Respond(w, Response("refresh", 200, "rotated", None,
                           req[w].user_id, req[w].new_session_id, None))
    /\ UNCHANGED <<now, minted, is_active, ticks, attrs, error_log>>

\* POST /auth/logout.
logout(credentials, token) ==
    /\ Ready
    /\ LET auth == get_current_user(credentials, now, is_active)
       IN  IF auth # 200
           THEN /\ last' = HTTPException("logout", auth, "guard")
                /\ UNCHANGED store
           ELSE IF token = NoToken
           THEN /\ last' = HTTPException("logout", 401, "No refresh token provided")
                /\ UNCHANGED store
           ELSE IF ~decode_ok(token, now)
           THEN /\ last' = HTTPException("logout", 401, "Invalid or expired token")
                /\ UNCHANGED store
           ELSE /\ store' = delete_refresh_session_repo(store, token.sid)
                /\ last' = Response("logout", 200, "User logged out successfully",
                                    token.sid, None, None,
                                    Cardinality(Stored(store) \ Stored(store')))
    /\ UNCHANGED <<now, minted, issued, is_active, req, ticks, attrs, error_log>>

\* POST /auth/logout-all-devices.
logout_all_devices(credentials) ==
    /\ Ready
    /\ LET auth == get_current_user(credentials, now, is_active)
       IN  IF auth # 200
           THEN /\ last' = HTTPException("logout_all", auth, "guard")
                /\ UNCHANGED store
           ELSE /\ store' = cleanup_all_user_sessions_repo(store, credentials.id)
                /\ last' = Response("logout_all", 200, "deleted", credentials.id,
                                None, None,
                                Cardinality(Stored(store) \ Stored(store')))
    /\ UNCHANGED <<now, minted, issued, is_active, req, ticks, attrs, error_log>>

----------------------------------------------------------------------------
\* CleanupScheduler (app/core/scheduler.py) and the admin trigger

\* Where a database failure strikes the service: nowhere; inside the sweep's
\* session scope (a DELETE or the commit raises); in the count query that
\* follows the sweep's commit.
Faults == {"none", "execute", "count"}

\* A sweep whose first DELETE is kept when the transaction fails.
cleanup_service_store_partial(st, hours, t, fault) ==
    IF fault = "execute"
    THEN [s \in SIDs |-> IF st[s] # NoRow /\ st[s].expires_at < t - Hours(hours)
                         THEN NoRow ELSE st[s]]
    ELSE cleanup_expired_and_revoked_sessions_repo(st, hours, t)

\* The table the service leaves.  A failure inside the session scope is
\* rolled back by get_async_session before it is raised again.
cleanup_service_store(st, hours, t, fault) ==
    IF fault = "execute" THEN st
    ELSE cleanup_expired_and_revoked_sessions_repo(st, hours, t)

cleanup_expired_and_revoked_sessions_service(detail, hours) ==
    /\ store' = cleanup_service_store(store, hours, now, "none")
    /\ last' = Response("cleanup", 200, detail, hours, None, None,
                        Cardinality(CleanupDeletes(store, hours, now)))

\* The line the job writes when the service raised.
SessionCleanupFailed == "Session cleanup failed"

\* A job without the except clause: the failure leaves the coroutine.
run_session_cleanup_raises(fault) ==
    HTTPException("cleanup", 500, fault)

\* How the job ends when the service raised: `except Exception` logs the
\* failure and the coroutine returns None.
run_session_cleanup_except(fault) ==
    Response("cleanup", None, SessionCleanupFailed, DEFAULT_CLEANUP_HOURS,
             None, None, None)

\* The cron job: hours=24.
run_session_cleanup(fault) ==
    /\ Ready
    /\ IF fault = "none"
       THEN /\ cleanup_expired_and_revoked_sessions_service("scheduled",
                                                            DEFAULT_CLEANUP_HOURS)
            /\ UNCHANGED error_log
       ELSE /\ store' = cleanup_service_store(store, DEFAULT_CLEANUP_HOURS, now, fault)
            /\ last' = run_session_cleanup_except(fault)
            /\ error_log' = IF last'.status = None
                            THEN error_log \cup {SessionCleanupFailed}
                            ELSE error_log
    /\ UNCHANGED <<now, minted, issued, is_active, req, ticks, attrs>>

\* The values of the query parameter `hours: int` the model tries.
ManualHours == {DEFAULT_CLEANUP_HOURS, 0, 0 - (24 * SESSION_DAYS + 1)}

\* POST /admin/auth/cleanup-sessions?hours=...
manual_cleanup_sessions(credentials, hours) ==
    /\ Ready
    /\ LET auth == require_admin(credentials, now, is_active)
       IN  IF auth # 200
           THEN /\ last' = HTTPException("cleanup", auth, "guard")
                /\ UNCHANGED store
           ELSE cleanup_expired_and_revoked_sessions_service("manual", hours)
    /\ UNCHANGED <<now, minted, issued, is_active, req, ticks, attrs, error_log>>

----------------------------------------------------------------------------
\* The user directory, as far as the session lifecycle reads it

\* PATCH /auth/deactivate.
deactivate_user(credentials) ==
    /\ Ready
    /\ LET auth == require_user(credentials, now, is_active)
       IN  IF auth # 200
           THEN /\ last' = HTTPException("deactivate", auth, "guard")
                /\ UNCHANGED is_active
           ELSE /\ is_active' = [is_active EXCEPT ![credentials.id] = FALSE]
                /\ last' = Response("deactivate", 204, "", credentials.id,
                                    None, None, None)
    /\ UNCHANGED <<now, store, minted, issued, req, ticks, attrs, error_log>>

\* POST /auth/reactivate.
reactivate_account(u) ==
    /\ Ready
    /\ IF is_active[u]
       THEN /\ last' = HTTPException("reactivate", 400,
                                     "Account is already active. Please log in.")
            /\ UNCHANGED is_active
       ELSE /\ is_active' = [is_active EXCEPT ![u] = TRUE]
            /\ last' = Response("reactivate", 200, "reactivated", u, None, None, None)
    /\ UNCHANGED <<now, store, minted, issued, req, ticks, attrs, error_log>>

\* Any route declared with Depends(require_...): the guard runs, then the
\* route's own handler, which the session lifecycle does not depend on.
protected_route(guard, credentials) ==
    /\ Ready
    /\ LET auth == RoleGuard(guard, credentials, now, is_active)
       IN  last' = IF auth # 200
                   THEN HTTPException("route", auth, guard)
                   ELSE Response("route", 200, guard, credentials.id, None, None, None)
    /\ UNCHANGED <<now, store, minted, issued, is_active, req, ticks, attrs, error_log>>

----------------------------------------------------------------------------
\* The clock

\* One tick; the grace window; one tick past the retention period; one tick
\* past the session lifetime.
Deltas ==
    {1, Seconds(GRACE_SECONDS), Hours(DEFAULT_CLEANUP_HOURS) + 1, Days(SESSION_DAYS) + 1}

Tick(d) ==
    /\ Ready
    /\ ticks < MaxTicks
    /\ now' = now + d
    /\ ticks' = ticks + 1
    /\ UNCHANGED <<store, minted, issued, is_active, req, last, attrs, error_log>>

----------------------------------------------------------------------------
\* Specifications

\* The response leaves the server; handlers run between deliveries.
Deliver ==
    /\ last # NoResponse
    /\ last' = NoResponse
    /\ UNCHANGED <<now, store, minted, issued, is_active, req, ticks, attrs, error_log>>

\* The handlers every build reaches.
NextCommon ==
    \/ \E u \in Users, password_ok \in BOOLEAN : login(u, password_ok)
    \/ \E w \in Tasks : \E token \in Presentable(now) : refresh_token(w, token)
    \/ \E c \in Credentials(now) : \E token \in Presentable(now) : logout(c, token)
    \/ \E c \in Credentials(now) : logout_all_devices(c)
    \/ run_session_cleanup("none")
    \/ \E c \in Credentials(now) : \E hours \in ManualHours : manual_cleanup_sessions(c, hours)
    \/ \E d \in Deltas : Tick(d)

\* The rest of the refresh handler, reached once line 179 can read revoked_at.
NextRotation ==
    \/ \E w \in Tasks : refresh_recheck(w)
    \/ \E w \in Tasks : refresh_expired(w)
    \/ \E w \in Tasks : refresh_create(w)
    \/ \E w \in Tasks : refresh_revoke(w)

\* The service as shipped, started on a table an earlier run left.
Next == NextCommon \/ Deliver

Spec == Init /\ [][Next]_vars

\* The rotation path: the handler reading the row's own columns, started on
\* an empty table with the admin's account the only active one.
InitRotation ==
    /\ now = Now0
    /\ store = [s \in SIDs |-> NoRow]
    /\ minted = {}
    /\ issued = {}
    /\ is_active = [u \in Accounts |-> Role(u) = ROLE_ADMIN]
    /\ req = [w \in Tasks |-> Idle]
    /\ last = NoResponse
    /\ ticks = 0
    /\ error_log = {}
    /\ attrs = OrmColumns

NextRows == NextCommon \/ NextRotation \/ Deliver

SpecRows == InitRotation /\ [][NextRows]_vars

\* A service that hands the repository both of its arguments.
update_refresh_session_service_both(session_id, token_hash, expires_at) ==
    /\ Ready
    /\ store' = update_refresh_session_repo(store, session_id, token_hash, expires_at)
    /\ last' = Response("update", 200, "", session_id, None, None, None)
    /\ UNCHANGED <<now, minted, issued, is_active, req, ticks, attrs, error_log>>

\* update_refresh_session_service: it calls update_refresh_session_repo with
\* one positional argument where the repository takes two, so the call
\* raises TypeError before the repository runs.  No route calls the service.
update_refresh_session_service(session_id, token_hash, expires_at) ==
    /\ Ready
    /\ store' = store
    /\ last' = HTTPException("update", 500, "TypeError: refresh_session_update")
    /\ UNCHANGED <<now, minted, issued, is_active, req, ticks, attrs, error_log>>

\* Every operation of the session services, the unused one included.
NextStore ==
    \/ NextRows
    \/ \E session_id \in SIDs :
          update_refresh_session_service(session_id, hash_token(ForgedToken), now)

SpecStore == InitRotation /\ [][NextStore]_vars

----------------------------------------------------------------------------
\* Vocabulary of the properties

\* ACTIVE: stored, revoked_at null, expires_at in the future.
Active(st, s, t) ==
    /\ s \in SIDs
    /\ st[s] # NoRow
    /\ st[s].revoked_at = None
    /\ st[s].expires_at > t

Revoked(st, s) == s \in SIDs /\ st[s] # NoRow /\ st[s].revoked_at # None

\* The refresh tokens of stored sessions that still decode.
LiveTokens == {token \in issued : token.sid \in Stored(store) /\ decode_ok(token, now)}

\* The step is the refresh handler answering the presented token at once.
RefreshAnswers(token) == \E w \in Tasks : refresh_token(w, token) /\ last' # NoResponse

\* Session ids minted by a rotation that has not inserted its row yet.
PendingCreate == {req[w].new_session_id : w \in {x \in Tasks : req[x].pc = "create"}}

----------------------------------------------------------------------------
\* The session the token names was revoked less than 5 s ago and its
\* successor is ACTIVE.
GraceCase(token) ==
    /\ Revoked(store, token.sid)
    /\ now - store[token.sid].revoked_at < Seconds(GRACE_SECONDS)
    /\ Active(store, store[token.sid].replaced_by_sid, now)

\* C1: a refresh presenting the token of a session revoked less than 5 s ago,
\* whose successor is ACTIVE, succeeds with an access token for the token's
\* user and leaves the table unchanged.
C1_GraceRetrySucceeds ==
    [][\A token \in LiveTokens :
          (GraceCase(token) /\ RefreshAnswers(token))
              => /\ last'.status = 200
                 /\ last'.access = token.id
                 /\ store' = store]_vars

\* The session the token names was revoked 5 s or more ago.
ReplayCase(token) ==
    /\ Revoked(store, token.sid)
    /\ now - store[token.sid].revoked_at >= Seconds(GRACE_SECONDS)

\* C2: a refresh presenting the token of a session revoked 5 s or more ago
\* fails with 401 "Refresh token revoked", returns no credential and leaves
\* the table unchanged.
C2_ReplayRejected ==
    [][\A token \in LiveTokens :
          (ReplayCase(token) /\ RefreshAnswers(token))
              => /\ last' = HTTPException("refresh", 401, "Refresh token revoked")
                 /\ store' = store]_vars

ExpiredCase(token) ==
    /\ token.sid \in Stored(store)
    /\ store[token.sid].expires_at < now

\* C6: a refresh presenting the token of a stored session whose expires_at
\* is in the past, revoked or not, fails with 401 "Refresh token expired",
\* and afterwards the session is no longer in the table.
C6_ExpiredRefreshDeletes ==
    [][\A token \in issued :
          (ExpiredCase(token) /\ RefreshAnswers(token))
              => /\ last' = HTTPException("refresh", 401, "Refresh token expired")
                 /\ store'[token.sid] = NoRow]_vars

\* The row expired more than 24 hours ago or was revoked more than 24 hours
\* ago.
Old(row) ==
    \/ now - row.expires_at > Hours(24)
    \/ (row.revoked_at # None /\ now - row.revoked_at > Hours(24))

\* C7: the sweep with hours = 24 deletes exactly the rows revoked more than
\* 24 hours ago and the rows expired more than 24 hours ago, leaves every
\* other row as it was, and reports the number of rows it deleted.
C7_SweepDeletesExactlyOld ==
    [][run_session_cleanup("none")
          => /\ \A s \in SIDs :
                  store'[s] = IF store[s] # NoRow /\ Old(store[s])
                              THEN NoRow ELSE store[s]
             /\ last'.count = Cardinality({s \in Stored(store) : Old(store[s])})]_vars

\* The sweep has just deleted a row and left an expired row younger than
\* the retention period.
C7_Witness ==
    /\ last.op = "cleanup"
    /\ last.detail = "scheduled"
    /\ last.count >= 1
    /\ \E s \in Stored(store) : store[s].expires_at < now /\ ~Old(store[s])

\* C8: no sweep deletes an ACTIVE row, whatever hours the admin trigger is
\* given.
C8_SweepSparesActive ==
    [][\A c \in Credentials(now), hours \in ManualHours :
          manual_cleanup_sessions(c, hours)
              => \A s \in SIDs : Active(store, s, now) => store'[s] = store[s]]_vars

\* C9: right after logout-all-devices returns for a user, no row of that user
\* is stored, the user's active count is 0, and every other user's rows are
\* as they were.
C9_LogoutAllDeletesOwn ==
    [][\A c \in Credentials(now) :
          (last'.op = "logout_all" /\ last'.status = 200 /\ logout_all_devices(c))
              => /\ \A s \in Stored(store') : store'[s].user_id # c.id
                 /\ get_user_active_sessions_repo(store', c.id, now) = 0
                 /\ \A s \in Stored(store) :
                       store[s].user_id # c.id => store'[s] = store[s]]_vars

\* logout-all-devices has just deleted two rows, one of them revoked, and a
\* row of another user is still stored.
C9_Witness ==
    /\ last.op = "logout_all"
    /\ last.status = 200
    /\ last.count >= 2
    /\ \E s \in Stored(store) : store[s].user_id # last.arg

\* C10: logout with a decodable refresh token deletes the session the token
\* names and nothing else; when that session is already absent it succeeds
\* all the same and leaves the table as it was.
C10_LogoutIdempotent ==
    [][\A c \in Credentials(now), token \in issued :
          (last'.op = "logout" /\ decode_ok(token, now)
                /\ get_current_user(c, now, is_active) = 200 /\ logout(c, token))
              => /\ last'.status = 200
                 /\ store'[token.sid] = NoRow
                 /\ \A s \in SIDs \ {token.sid} : store'[s] = store[s]
                 /\ (store[token.sid] = NoRow => store' = store)]_vars

\* A logout has just succeeded for an issued token whose session was
\* already gone.
C10_Witness ==
    /\ last.op = "logout"
    /\ last.status = 200
    /\ last.count = 0
    /\ \E token \in issued : token.sid = last.arg /\ store[token.sid] = NoRow

----------------------------------------------------------------------------
\* The logical states of a session identifier.

\* REVOKED: stored, revoked_at set to an instant of the row's life so far.
StateRevoked(s) ==
    /\ store[s] # NoRow
    /\ store[s].revoked_at # None
    /\ store[s].created_at <= store[s].revoked_at
    /\ store[s].revoked_at <= now

\* EXPIRED: stored, never revoked, expires_at no longer in the future.
StateExpired(s) ==
    /\ store[s] # NoRow
    /\ store[s].revoked_at = None
    /\ store[s].expires_at <= now

StateAbsent(s) == store[s] = NoRow

----------------------------------------------------------------------------
\* RoleGuard (app/core/security.py): the guards over every credential a
\* client can present, with accounts being deactivated and reactivated.

InitGuard ==
    /\ now = Now0
    /\ store = [s \in SIDs |-> NoRow]
    /\ minted = {}
    /\ issued = {}
    /\ is_active = [u \in Accounts |-> TRUE]
    /\ req = [w \in Tasks |-> Idle]
    /\ last = NoResponse
    /\ ticks = 0
    /\ error_log = {}
    /\ attrs = RefreshSessionOut

\* One client logs in, which puts a refresh token into a caller's hands; the
\* guards read the users table and the clock, never the session table.
NextGuard ==
    \/ \E u \in Users, password_ok \in BOOLEAN : minted = {} /\ login(u, password_ok)
    \/ \E guard \in Guards : \E c \in Bearer(now) : protected_route(guard, c)
    \/ \E c \in Bearer(now) : deactivate_user(c)
    \/ \E u \in Accounts : reactivate_account(u)
    \/ \E d \in Deltas : Tick(d)
    \/ Deliver

SpecGuard == InitGuard /\ [][NextGuard]_vars

\* C12: a protected route presented with a token of kind refresh in the
\* Authorization header answers 401, whatever guard it declares.
C12_RefreshTokenRejected ==
    [][\A guard \in Guards, token \in issued :
          (token.type = "refresh" /\ protected_route(guard, token))
              => last'.status = 401]_vars

\* The order User < Organizer < Admin < SysAdmin.
Rank(role) ==
    IF role = ROLE_SYSADMIN THEN 3
    ELSE IF role = ROLE_ADMIN THEN 2
    ELSE IF role = ROLE_ORGANIZER THEN 1
    ELSE 0

\* C13: for every guard and every active caller with a fresh access token,
\* the guard admits the caller exactly when the caller's role is at least
\* the role the guard asks for, and answers 403 otherwise.
C13_MinimumRole ==
    [][\A guard \in Guards, u \in Accounts :
          (is_active[u] /\ protected_route(guard, create_access_token(u, now)))
              => last'.status = IF Rank(Role(u)) >= Rank(guard) THEN 200 ELSE 403]_vars

\* C14: a request with no credential, or with one that does not decode,
\* answers 401, and a request with a decodable credential of an inactive
\* account answers 403.
C14_CredentialOutcomes ==
    [][\A guard \in Guards, c \in Bearer(now) :
          protected_route(guard, c)
              => /\ (c = NoToken \/ ~decode_ok(c, now)) => last'.status = 401
                 /\ (/\ c # NoToken
                     /\ decode_ok(c, now)
                     /\ c.id \in Accounts
                     /\ ~is_active[c.id]) => last'.status = 403]_vars

\* C15: any two refresh requests that fail with status 401 get the same
\* response.
C15_Same401 ==
    \A a \in Presentable(now), b \in Presentable(now) :
        LET ra == refresh_checks(a, store, now, attrs)
            rb == refresh_checks(b, store, now, attrs)
        IN  (ra[1] = 401 /\ rb[1] = 401)
                => HTTPException("refresh", ra[1], ra[2])
                       = HTTPException("refresh", rb[1], rb[2])

----------------------------------------------------------------------------
\* The cleanup job on a database that can fail

NextSweep ==
    \/ \E u \in Users, password_ok \in BOOLEAN : login(u, password_ok)
    \/ \E w \in Tasks : \E token \in Presentable(now) : refresh_token(w, token)
    \/ \E fault \in Faults : run_session_cleanup(fault)
    \/ \E c \in Credentials(now) : \E hours \in ManualHours : manual_cleanup_sessions(c, hours)
    \/ \E d \in Deltas : Tick(d)
    \/ Deliver

SpecSweep == Init /\ [][NextSweep]_vars

\* C16: a scheduled run whose sweep fails ends without raising: it writes
\* one line to the error log and touches nothing a request handler reads
\* beyond what the sweep itself committed; and whatever the log holds, a
\* scheduled run sweeps again with the same 24-hour retention.
C16_FailureContained ==
    [][/\ \A fault \in Faults \ {"none"} :
            run_session_cleanup(fault)
                => /\ last'.status = None
                   /\ last'.detail = SessionCleanupFailed
                   /\ last'.access = None /\ last'.cookie = None
                   /\ SessionCleanupFailed \in error_log'
                   /\ store' \in {store, cleanup_expired_and_revoked_sessions_repo(
                                             store, DEFAULT_CLEANUP_HOURS, now)}
                   /\ UNCHANGED <<now, minted, issued, is_active, req, ticks, attrs>>
       /\ run_session_cleanup("none")
            => /\ last'.arg = DEFAULT_CLEANUP_HOURS
               /\ store' = cleanup_expired_and_revoked_sessions_repo(
                               store, DEFAULT_CLEANUP_HOURS, now)
               /\ error_log' = error_log]_vars

\* A scheduled run has deleted rows after an earlier run had failed.
C16_Witness ==
    /\ SessionCleanupFailed \in error_log
    /\ last.op = "cleanup"
    /\ last.detail = "scheduled"
    /\ last.status = 200
    /\ last.count >= 1

\* C17: whenever a sweep with any retention has run, a second sweep at the
\* same clock value deletes no row and leaves the table of the first; and a
\* scheduled run that fails before its commit leaves the table as it was, so
\* that the next run has the same rows to delete.
C17_SweepRerunnable ==
    [][/\ (last'.op = "cleanup" /\ last'.status = 200)
            => /\ store' = cleanup_expired_and_revoked_sessions_repo(
                               store, last'.arg, now)
               /\ cleanup_expired_and_revoked_sessions_repo(
                      store', last'.arg, now') = store'
               /\ CleanupDeletes(store', last'.arg, now') = {}
       /\ (last'.detail = SessionCleanupFailed /\ run_session_cleanup("execute"))
            => /\ store' = store
               /\ CleanupDeletes(store', DEFAULT_CLEANUP_HOURS, now')
                      = CleanupDeletes(store, DEFAULT_CLEANUP_HOURS, now)]_vars

\* A scheduled run has just failed before its commit, and a row expired for
\* longer than the retention period is still stored.
C17_Witness ==
    /\ last.detail = SessionCleanupFailed
    /\ \E s \in Stored(store) :
          store[s].expires_at < now - Hours(DEFAULT_CLEANUP_HOURS)

\* The strings hash_token is given: a refresh token that was issued, or
\* whatever else arrives in the cookie.
Secrets == Presentable(now) \ {NoToken}

LiveAges == {a \in AccessAges \cup {1, Seconds(1)} : a < Minutes(ACCESS_TOKEN_MINUTES)}

C20_DeletedStaysDead ==
    [][\A token \in issued :
          (token.sid \notin Stored(store) /\ \E w \in Tasks : refresh_token(w, token))
              => /\ last'.op = "refresh"
                 /\ last'.status = 401
                 /\ last'.access = None
                 /\ last'.cookie = None
                 /\ store' = store
                 /\ minted' = minted
                 /\ issued' = issued]_vars

\* A refresh has just been refused while a token that still decodes names a
\* session whose row was deleted.
C20_Witness ==
    /\ last = HTTPException("refresh", 401, "Invalid refresh token")
    /\ \E token \in issued :
          /\ decode_ok(token, now)
          /\ token.sid \notin Stored(store)
          /\ refresh_checks(token, store, now, attrs) = <<401, "Invalid refresh token">>

RotationCase(token) ==
    /\ decode_ok(token, now)
    /\ Active(store, token.sid, now)
    /\ store[token.sid].user_id = token.id
    /\ verify_token(token, store[token.sid].refresh_token_hash)

\* C22: a refresh presenting the valid, matching token of an ACTIVE session
\* succeeds; the handler never answers it with an error.
C22_RotationSucceeds ==
    [][\A token \in issued :
          (RotationCase(token) /\ \E w \in Tasks : refresh_token(w, token))
              => last'.status \notin {401, 403, 500}]_vars

----------------------------------------------------------------------------
\* Login and rotation beside the account switch

\* An empty table, every account active, the handler reading the row's own
\* columns.
InitAccounts ==
    /\ now = Now0
    /\ store = [s \in SIDs |-> NoRow]
    /\ minted = {}
    /\ issued = {}
    /\ is_active = [u \in Accounts |-> TRUE]
    /\ req = [w \in Tasks |-> Idle]
    /\ last = NoResponse
    /\ ticks = 0
    /\ error_log = {}
    /\ attrs = OrmColumns

NextAccounts ==
    \/ \E u \in Users, password_ok \in BOOLEAN : login(u, password_ok)
    \/ \E w \in Tasks : \E token \in Presentable(now) : refresh_token(w, token)
    \/ NextRotation
    \/ \E c \in Credentials(now) : deactivate_user(c)
    \/ \E u \in Users : reactivate_account(u)
    \/ \E d \in Deltas : Tick(d)
    \/ Deliver

SpecAccounts == InitAccounts /\ [][NextAccounts]_vars

\* The service as shipped beside the account switch, started on a table an
\* earlier run left.
NextLogin ==
    \/ \E u \in Users, password_ok \in BOOLEAN : login(u, password_ok)
    \/ \E c \in Credentials(now) : deactivate_user(c)
    \/ \E u \in Users : reactivate_account(u)
    \/ \E c \in Credentials(now) : logout_all_devices(c)
    \/ \E d \in Deltas : Tick(d)
    \/ Deliver

SpecLogin == Init /\ [][NextLogin]_vars

\* C23: a login that succeeds adds exactly one row, ACTIVE, owned by the
\* user, expiring 7 days on, whose stored fingerprint is that of the refresh
\* token handed out and not the token; a login refused for a wrong password
\* or an inactive account adds no row and hands out nothing.
C23_Login ==
    [][\A u \in Users, password_ok \in BOOLEAN :
          login(u, password_ok)
              => IF is_active[u] /\ password_ok
                 THEN /\ last'.status = 200
                      /\ last'.access = u
                      /\ \E token \in issued' \ issued :
                            /\ issued' = issued \cup {token}
                            /\ token.id = u
                            /\ token.sid = last'.cookie
                            /\ token.sid \notin Stored(store)
                            /\ Stored(store') = Stored(store) \cup {token.sid}
                            /\ \A o \in Stored(store) : store'[o] = store[o]
                            /\ Active(store', token.sid, now)
                            /\ store'[token.sid].user_id = u
                            /\ store'[token.sid].expires_at = now + Days(SESSION_DAYS)
                            /\ store'[token.sid].refresh_token_hash = hash_token(token)
                            /\ store'[token.sid].refresh_token_hash # token
                 ELSE /\ last'.status \in {401, 403}
                      /\ last'.access = None
                      /\ last'.cookie = None
                      /\ store' = store
                      /\ issued' = issued]_vars

\* A login for an inactive account has just been refused while a session
\* of an active user is stored.
C23_Witness ==
    /\ last = HTTPException("login", 403, "Inactive user")
    /\ \E u \in Users : ~is_active[u]
    /\ \E s \in Stored(store) : is_active[store[s].user_id]

\* The session the token names was revoked less than 5 s ago and its
\* successor is deleted, revoked or expired.
GraceLostCase(token) ==
    /\ Revoked(store, token.sid)
    /\ now - store[token.sid].revoked_at < Seconds(GRACE_SECONDS)
    /\ ~Active(store, store[token.sid].replaced_by_sid, now)

\* C24: a refresh presenting the token of a revoked session gets an access
\* token only if the successor is stored and ACTIVE; inside the 5-second
\* window with the successor gone, revoked or expired it is answered 401
\* "Refresh token revoked".
C24_GraceNeedsSuccessor ==
    [][\A token \in LiveTokens :
          (Revoked(store, token.sid) /\ RefreshAnswers(token))
              => /\ last'.access # None
                    => Active(store, store[token.sid].replaced_by_sid, now)
                 /\ GraceLostCase(token)
                    => /\ last'.status = 401
                       /\ last'.detail = "Refresh token revoked"]_vars

\* The sessions created so far as successors of session s: the one its row
\* names, and those a rotation of s has inserted without having revoked s yet.
Successors(s) ==
    {b \in SIDs : Revoked(store, s) /\ store[s].replaced_by_sid = b}
        \cup {req[w].new_session_id :
                 w \in {x \in Tasks : req[x].pc = "revoke" /\ req[x].session_id = s}}

C27_LogoutConfined ==
    [][\A c \in Credentials(now), token \in Presentable(now) :
          (last'.op = "logout" /\ logout(c, token))
              => /\ \A s \in Stored(store) :
                       store[s].user_id # c.id => store'[s] = store[s]
                 /\ \A s \in Stored(store) :
                       s # token.sid => store'[s] = store[s]]_vars

----------------------------------------------------------------------------
\* The cleanup job under its trigger

\* Logins go on adding rows while the job runs, fails and runs again.
NextLive ==
    \/ \E u \in Users, password_ok \in BOOLEAN : login(u, password_ok)
    \/ \E fault \in Faults : run_session_cleanup(fault)
    \/ \E d \in Deltas : Tick(d)
    \/ Deliver

\* The cron trigger fires every day whatever requests are being served, and
\* the database lets a sweep through again and again; responses leave.
SpecLive ==
    /\ Init
    /\ [][NextLive]_vars
    /\ SF_vars(run_session_cleanup("none"))
    /\ WF_vars(Deliver)

\* C30: a stored row that was revoked, or that expired, longer ago than the
\* retention period is eventually absent from the table.
C30_StaleRowsRemoved ==
    \A s \in SIDs : (store[s] # NoRow /\ Old(store[s])) ~> (store[s] = NoRow)

\* The clock has advanced, a scheduled sweep has just deleted rows, and of
\* the rows that remain none is past the retention period.
C30_Witness ==
    /\ now > Now0
    /\ last.op = "cleanup"
    /\ last.detail = "scheduled"
    /\ last.status = 200
    /\ last.count >= 1
    /\ Stored(store) # {}
    /\ \A s \in Stored(store) : ~Old(store[s])

====
